---- MODULE Spec2Model ----
(***************************************************************************)
(* A model of src/src/contexts/AuthContext.tsx: the OAuth2.0 Authorization *)
(* Code + PKCE session controller (AuthProvider) and the route guard       *)
(* (ProtectedRoute), running in one browser tab.                           *)
(*                                                                         *)
(* One page instance is alive at a time.  localStorage and sessionStorage  *)
(* survive page loads; the in-memory session, the guards' state and every  *)
(* pending promise die with the page.  JavaScript is single-threaded, so   *)
(* each action is one run-to-completion stretch of code: from the start of *)
(* a handler to its first await, or from the resumption after an await to  *)
(* the end (micro-tasks that follow immediately are part of the stretch).  *)
(***************************************************************************)
EXTENDS Integers, Sequences, FiniteSets, TLC

(* ------------------------------ bounds -------------------------------- *)
\* number of ProtectedRoute components mounted in a page
NGuards == 2
\* number of login() calls in a behaviour (each draws a new state / verifier)
MaxLogins == 2
\* number of clock steps of one second
MaxTicks == 2
\* distinct token sets the token endpoint hands out
MaxTok == 2
\* largest expires_in (seconds) the token endpoint reports
MaxExpiresIn == 1

(* --------------------------- program constants ------------------------ *)
\* tokens.expires_in * 1000
MsPerSecond == 1000

(* ------------------------------ values -------------------------------- *)
\* null: what getItem returns for a missing key, useState(null), an absent
\* URL parameter
None == <<>>
\* the marker value '1'
One == <<"1">>
\* the string Math.random().toString(36).substring(7) of the n-th login()
\* call; 0 is a value no login() of this tab produced (a forged callback)
StateStr(n) == <<"state", n>>
\* the string generateCodeVerifier() returns in the n-th login() call
VerifierStr(n) == <<"verifier", n>>
\* the authorization code of a callback URL: opaque to the program, which
\* only tests its presence and copies it into the request body
Code == <<"code">>
\* Number.prototype.toString and parseInt(s, 10) on the decimal strings it
\* produces
NumToString(n) == <<"decimal", n>>
parseInt(s) == s[2]
\* base64UrlEncode(await sha256(verifier)): a collision-free digest
sha256(input) == <<"sha256", input>>
base64UrlEncode(buffer) == <<"base64url", buffer>>

Guards == 1..NGuards

VARIABLES
    \* localStorage: access_token, id_token, refresh_token, token_expiry,
    \* oauth_state
    localStorage,
    \* sessionStorage: pkce_verifier, isLoggingIn, justLoggedOut
    sessionStorage,
    \* OAUTH_CONFIG / envRecord: which configuration values are set
    env,
    \* AuthProvider state
    isAuthenticated, isLoading, accessToken,
    \* ProtectedRoute state, per mounted guard
    isProcessingCallback, hasRedirected,
    \* window.location: the query parameters of the current URL, and the
    \* navigation the page has started (None while it has started none)
    url, nav,
    \* handleAuthCallback invocations awaiting fetch()
    inflight,
    \* login() invocations awaiting sha256()
    pendingLogin,
    \* Date.now()
    now,
    \* number of login() calls so far in the tab
    nonce,
    \* history: the token-exchange POST requests issued so far in the tab
    posts,
    \* history, per page instance: login() calls, navigations to the
    \* authorization endpoint, logout() called, and whether the page was
    \* loaded with no tokens, no callback parameters and no flow markers
    loginCalls, authNavs, loggedOut, freshLoad,
    \* history, per page instance: the mount effect found a token record
    \* in storage whose expiry time was still ahead
    validRecord,
    \* history: the operation the last step performed
    ev

vars == <<localStorage, sessionStorage, env, isAuthenticated, isLoading,
          accessToken, isProcessingCallback, hasRedirected, url, nav,
          inflight, pendingLogin, now, nonce, posts, loginCalls, authNavs,
          loggedOut, freshLoad, validRecord, ev>>

TokenKeys == {"access_token", "id_token", "refresh_token", "token_expiry"}

EmptyLocal == [access_token |-> None, id_token |-> None,
               refresh_token |-> None, token_expiry |-> None,
               oauth_state |-> None]
EmptySession == [pkce_verifier |-> None, isLoggingIn |-> None,
                 justLoggedOut |-> None]

\* the URLs a page can be loaded with: no parameters, a code alone, a state
\* alone, or code and state, the state forged (0) or one that a login() of
\* this tab has produced
UrlStates(n) == {StateStr(s) : s \in 0..n}
UrlCodes == {Code}
Urls(n) == [code : {None}, state : {None}]
           \cup [code : UrlCodes, state : {None}]
           \cup [code : {None}, state : {StateStr(0)}]
           \cup [code : UrlCodes, state : UrlStates(n)]
NoParams == [code |-> None, state |-> None]

\* window.location after an assignment: the endpoint and its query
\* parameters
NavTo(to, state, challenge, method, clientId, logoutUri) ==
    [to |-> to, state |-> state, code_challenge |-> challenge,
     code_challenge_method |-> method, client_id |-> clientId,
     logout_uri |-> logoutUri]
NoNav == NavTo("none", None, None, None, None, None)

\* the token endpoint's answers: a success response with its tokens (the
\* refresh token is optional), a non-success response, fetch() rejecting,
\* and reading the body (response.text(), response.json()) rejecting
TokenResponse(kind, k, refresh, expires_in) ==
    [kind |-> kind, access_token |-> <<"access", k>>,
     id_token |-> <<"id", k>>,
     refresh_token |-> IF refresh THEN <<"refresh", k>> ELSE None,
     expires_in |-> expires_in]
NoResponse == [kind |-> "none", access_token |-> None, id_token |-> None,
               refresh_token |-> None, expires_in |-> 0]
Failure(kind) == [NoResponse EXCEPT !.kind = kind]
Responses ==
    {TokenResponse("ok", k, r, e) :
        k \in 1..MaxTok, r \in BOOLEAN, e \in 0..MaxExpiresIn}
    \cup {Failure(kind) : kind \in {"not_ok", "fetch_throws", "read_throws"}}

\* history of the last step: the operation, the guard that ran it, the
\* state argument of handleAuthCallback, what the operation returned
\* ("true", "false", "pending" while it awaits, "void"; for the mount
\* effect what it did with the stored record, for logout() whether the
\* session was authenticated when it was called) and the token endpoint's
\* answer when the step consumed one
Event(op, g, state, ret, resp) ==
    [op |-> op, g |-> g, state |-> state, ret |-> ret, resp |-> resp]

\* what a page load finds: no stored tokens, no callback parameters, no
\* flow markers
IsFresh(ls, ss, u) ==
    /\ \A k \in TokenKeys : ls[k] = None
    /\ u = NoParams
    /\ ss.isLoggingIn = None /\ ss.justLoggedOut = None

\* what the mount effect finds: an access token with an expiry time that
\* is still ahead at time t
HasUnexpiredRecord(ls, t) ==
    /\ ls.access_token # None
    /\ ls.token_expiry # None
    /\ ls.token_expiry[2] > t

Init ==
    /\ localStorage = EmptyLocal
    /\ sessionStorage = EmptySession
    /\ env \in [redirectUri : BOOLEAN, logoutUrl : BOOLEAN,
                logoutRedirect : BOOLEAN]
    /\ isAuthenticated = FALSE
    /\ isLoading = TRUE
    /\ accessToken = None
    /\ isProcessingCallback = [g \in Guards |-> FALSE]
    /\ hasRedirected = [g \in Guards |-> FALSE]
    /\ url \in Urls(0)
    /\ nav = NoNav
    /\ inflight = {}
    /\ pendingLogin = {}
    /\ now = 0
    /\ nonce = 0
    /\ posts = <<>>
    /\ loginCalls = 0
    /\ authNavs = 0
    /\ loggedOut = FALSE
    /\ freshLoad = IsFresh(localStorage, sessionStorage, url)
    /\ validRecord = FALSE
    /\ ev = Event("load", 0, None, "void", NoResponse)

(* ------------------- the browser: page loads and time ------------------ *)
\* The tab loads the application (a first visit, a reload, the identity
\* provider's redirect back): a new page instance over the same storage.
PageLoad(u) ==
    /\ isAuthenticated' = FALSE
    /\ isLoading' = TRUE
    /\ accessToken' = None
    /\ isProcessingCallback' = [g \in Guards |-> FALSE]
    /\ hasRedirected' = [g \in Guards |-> FALSE]
    /\ url' = u
    /\ nav' = NoNav
    /\ inflight' = {}
    /\ pendingLogin' = {}
    /\ loginCalls' = 0
    /\ authNavs' = 0
    /\ loggedOut' = FALSE
    /\ freshLoad' = IsFresh(localStorage, sessionStorage, u)
    /\ validRecord' = FALSE
    /\ ev' = Event("load", 0, None, "void", NoResponse)
    /\ UNCHANGED <<localStorage, sessionStorage, env, now, nonce, posts>>

Tick ==
    /\ now < MaxTicks * MsPerSecond
    /\ now' = now + MsPerSecond
    /\ ev' = Event("tick", 0, None, "void", NoResponse)
    /\ UNCHANGED <<localStorage, sessionStorage, env, isAuthenticated,
                   isLoading, accessToken, isProcessingCallback,
                   hasRedirected, url, nav, inflight, pendingLogin, nonce,
                   posts, loginCalls, authNavs, loggedOut, freshLoad, validRecord>>

(* ------------------------ AuthProvider: mount ------------------------- *)
\* a check that trusts exactly the expired tokens
TokenUnexpiredInverted(t, expiryTime) == t >= expiryTime

\* a check that still trusts a token at the instant it expires
TokenUnexpiredInclusive(t, expiryTime) == t <= expiryTime

\* Date.now() < expiryTime
TokenUnexpired(t, expiryTime) == t < expiryTime

\* the four removeItem calls of the expired branch
RemoveTokens(ls) ==
    [ls EXCEPT !.access_token = None, !.id_token = None,
               !.refresh_token = None, !.token_expiry = None]

\* useEffect(..., []) of AuthProvider: check for existing tokens on mount.
\* It runs once per page instance, in the flush of the first commit, after
\* the guards' first effects and before any promise of the page resolves.
AuthProviderMount ==
    /\ isLoading
    /\ LET token == localStorage.access_token
           tokenExpiry == localStorage.token_expiry
       IN  IF token # None /\ tokenExpiry # None
           THEN IF TokenUnexpired(now, parseInt(tokenExpiry))
                THEN /\ accessToken' = token
                     /\ isAuthenticated' = TRUE
                     /\ UNCHANGED localStorage
                ELSE /\ localStorage' = RemoveTokens(localStorage)
                     /\ UNCHANGED <<accessToken, isAuthenticated>>
           ELSE UNCHANGED <<accessToken, isAuthenticated, localStorage>>
    /\ isLoading' = FALSE
    /\ ev' = Event("mount", 0, None,
                   IF localStorage' # localStorage THEN "purged"
                   ELSE IF isAuthenticated' THEN "restored" ELSE "void",
                   NoResponse)
    /\ validRecord' = HasUnexpiredRecord(localStorage, now)
    /\ UNCHANGED <<sessionStorage, env, isProcessingCallback, hasRedirected,
                   url, nav, inflight, pendingLogin, now, nonce, posts,
                   loginCalls, authNavs, loggedOut, freshLoad>>

(* ------------------------------- login -------------------------------- *)
\* a login() that keeps a verifier it finds in sessionStorage
LoginSessionStaleVerifier(ss, redirectUri, verifier) ==
    IF ~redirectUri
    THEN [ss EXCEPT !.isLoggingIn = None]
    ELSE [ss EXCEPT !.isLoggingIn = One,
                    !.pkce_verifier = IF @ = None THEN verifier ELSE @]

\* a login() that goes on without a configured redirect URI
LoginSessionNoAbort(ss, redirectUri, verifier) ==
    [ss EXCEPT !.isLoggingIn = One, !.pkce_verifier = verifier]

\* sessionStorage after login() up to its await: the isLoggingIn marker is
\* set first; with no redirect URI configured it is removed again and no
\* verifier is stored, otherwise the verifier is stored
LoginSession(ss, redirectUri, verifier) ==
    IF ~redirectUri
    THEN [ss EXCEPT !.isLoggingIn = None]
    ELSE [ss EXCEPT !.isLoggingIn = One, !.pkce_verifier = verifier]

\* login() from its call to `await sha256(verifier)`, or to the return of
\* the aborted call
login ==
    /\ nonce < MaxLogins
    /\ LET state == StateStr(nonce + 1)
           verifier == VerifierStr(nonce + 1)
       IN  /\ localStorage' = [localStorage EXCEPT !.oauth_state = state]
           /\ sessionStorage' =
                  LoginSession(sessionStorage, env.redirectUri, verifier)
           /\ pendingLogin' =
                  IF ~env.redirectUri
                  THEN pendingLogin
                  ELSE pendingLogin
                       \cup {[state |-> state, verifier |-> verifier]}
    /\ nonce' = nonce + 1
    /\ loginCalls' = loginCalls + 1

\* an authorization URL that asks for the plain challenge method
AuthorizeUrlPlain(state, challenge) ==
    NavTo("authorize", state, challenge, <<"plain">>, <<"clientId">>, None)

\* the authorization URL login() builds
AuthorizeUrl(state, challenge) ==
    NavTo("authorize", state, challenge, <<"S256">>, <<"clientId">>, None)

\* login() after `await sha256(verifier)`: build the authorization URL and
\* navigate to it
LoginNavigate(p) ==
    /\ ~isLoading
    /\ p \in pendingLogin
    /\ pendingLogin' = pendingLogin \ {p}
    /\ nav' = AuthorizeUrl(p.state, base64UrlEncode(sha256(p.verifier)))
    /\ authNavs' = authNavs + 1
    /\ ev' = Event("navigate", 0, p.state, "void", NoResponse)
    /\ UNCHANGED <<localStorage, sessionStorage, env, isAuthenticated,
                   isLoading, accessToken, isProcessingCallback,
                   hasRedirected, url, inflight, now, nonce, posts,
                   loginCalls, loggedOut, freshLoad, validRecord>>

(* ------------------------------- logout ------------------------------- *)
\* a logout() that forgets the pending CSRF state
ClearTokensOnly(ls) == RemoveTokens(ls)

\* the removeItem calls of logout() on localStorage
ClearLocal(ls) == [RemoveTokens(ls) EXCEPT !.oauth_state = None]

\* the logout URL logout() builds
LogoutUrl ==
    NavTo("logout", None, None, None, <<"clientId">>, <<"logoutRedirect">>)

\* a check of the logout endpoint alone
LogoutUrlMissing(e) == ~e.logoutUrl

\* !envRecord.VITE_OAUTH_LOGOUT_URL || !envRecord.VITE_OAUTH_LOGOUT_REDIRECT
LogoutConfigMissing(e) == ~e.logoutUrl \/ ~e.logoutRedirect

\* logout(), called by the application while the page is alive
logout ==
    /\ ~isLoading
    /\ sessionStorage' = [sessionStorage EXCEPT !.justLoggedOut = One,
                                                !.pkce_verifier = None]
    /\ accessToken' = None
    /\ isAuthenticated' = FALSE
    /\ localStorage' = ClearLocal(localStorage)
    /\ nav' = IF LogoutConfigMissing(env) THEN nav ELSE LogoutUrl
    /\ loggedOut' = TRUE
    /\ ev' = Event("logout", 0, None,
                   IF isAuthenticated THEN "wasAuthenticated" ELSE "void",
                   NoResponse)
    /\ UNCHANGED <<env, isLoading, isProcessingCallback, hasRedirected, url,
                   inflight, pendingLogin, now, nonce, posts, loginCalls,
                   authNavs, freshLoad, validRecord>>

(* --------------------------- handleAuthCallback ----------------------- *)
\* a check that lets a callback through when no state is stored
StateMismatchWhenStored(state, savedState) ==
    savedState # None /\ state # savedState

\* state !== savedState
StateMismatch(state, savedState) == state # savedState

\* a state that is matched and left in storage
KeepState(ls) == ls

\* localStorage.removeItem('oauth_state') once the state has matched
ConsumeState(ls) == [ls EXCEPT !.oauth_state = None]

\* a verifier that is attached and left in storage
KeepVerifier(ss) == ss

\* sessionStorage.removeItem('pkce_verifier') once the verifier is attached
ConsumeVerifier(ss) == [ss EXCEPT !.pkce_verifier = None]

\* the body of the token-exchange POST
TokenParams(code, verifier) ==
    [grant_type |-> <<"authorization_code">>, code |-> code,
     code_verifier |-> verifier]

\* handleAuthCallback(code, state), called by guard g, from its call to
\* `await fetch(...)`, or to `return false` on a state mismatch.  The
\* processCallback that called it set isProcessingCallback before the call
\* and, when the call has returned, clears it in its finally.
handleAuthCallback(g, code, state) ==
    LET savedState == localStorage.oauth_state
        verifier == sessionStorage.pkce_verifier
    IN  IF StateMismatch(state, savedState)
        THEN /\ sessionStorage' = [sessionStorage EXCEPT !.isLoggingIn = None]
             /\ isProcessingCallback' =
                    [isProcessingCallback EXCEPT ![g] = FALSE]
             /\ ev' = Event("handleAuthCallback", g, state, "false",
                            NoResponse)
             /\ UNCHANGED <<localStorage, inflight, posts>>
        ELSE /\ Len(posts) <= MaxLogins
             /\ localStorage' = ConsumeState(localStorage)
             /\ sessionStorage' = IF verifier # None
                                  THEN ConsumeVerifier(sessionStorage)
                                  ELSE sessionStorage
             /\ posts' = Append(posts, [state |-> state,
                                        body |-> TokenParams(code, verifier)])
             /\ inflight' = inflight
                    \cup {[id |-> Len(posts) + 1, g |-> g, state |-> state]}
             /\ isProcessingCallback' =
                    [isProcessingCallback EXCEPT ![g] = TRUE]
             /\ ev' = Event("handleAuthCallback", g, state, "pending",
                            NoResponse)

\* an expiry stored as a duration instead of an absolute time
RelativeExpiry(t, expires_in) == expires_in * MsPerSecond

\* const expiryTime = Date.now() + (tokens.expires_in * 1000)
ExpiryTime(t, expires_in) == t + expires_in * MsPerSecond

\* the setItem calls that store a success response
StoreTokens(ls, tokens, t) ==
    [ls EXCEPT !.access_token = tokens.access_token,
               !.id_token = tokens.id_token,
               !.refresh_token = IF tokens.refresh_token # None
                                 THEN tokens.refresh_token
                                 ELSE @,
               !.token_expiry =
                   NumToString(ExpiryTime(t, tokens.expires_in))]

\* a cleanup that runs on the success path only
SuccessOnlyCleanup(ss, response) ==
    IF response.kind = "ok" THEN [ss EXCEPT !.isLoggingIn = None] ELSE ss

\* sessionStorage when handleAuthCallback returns after the exchange: its
\* finally block removes the isLoggingIn marker whatever the answer was
FinallySession(ss, response) == [ss EXCEPT !.isLoggingIn = None]

\* a success path that sets the access token and forgets the flag
SessionAfterTokenOnly(response, session) ==
    IF response.kind = "ok"
    THEN [session EXCEPT !.accessToken = response.access_token]
    ELSE session

\* a session marked authenticated whatever the token endpoint answered
SessionAfterAnyAnswer(response, session) ==
    [isAuthenticated |-> TRUE, accessToken |-> response.access_token]

\* the in-memory session after the token endpoint has answered
SessionAfter(response, session) ==
    IF response.kind = "ok"
    THEN [isAuthenticated |-> TRUE, accessToken |-> response.access_token]
    ELSE session

\* handleAuthCallback after `await fetch(...)`, with the token endpoint's
\* answer, up to its return; then the processCallback that awaited it:
\* strip the URL parameters on success, clear isProcessingCallback.
handleAuthCallbackResume(r, response) ==
    /\ ~isLoading
    /\ r \in inflight
    /\ inflight' = inflight \ {r}
    /\ localStorage' = IF response.kind = "ok"
                       THEN StoreTokens(localStorage, response, now)
                       ELSE localStorage
    /\ LET session == SessionAfter(response,
                          [isAuthenticated |-> isAuthenticated,
                           accessToken |-> accessToken])
       IN  /\ isAuthenticated' = session.isAuthenticated
           /\ accessToken' = session.accessToken
    /\ sessionStorage' = FinallySession(sessionStorage, response)
    /\ url' = IF response.kind = "ok" THEN NoParams ELSE url
    /\ isProcessingCallback' = [isProcessingCallback EXCEPT ![r.g] = FALSE]
    /\ ev' = Event("handleAuthCallbackResume", r.g, r.state,
                   IF response.kind = "ok" THEN "true" ELSE "false",
                   response)
    /\ UNCHANGED <<env, isLoading, hasRedirected, nav, pendingLogin, now,
                   nonce, posts, loginCalls, authNavs, loggedOut, freshLoad, validRecord>>

(* ---------------------------- ProtectedRoute -------------------------- *)
\* a guard that shows its content while a callback is processed
RenderIgnoringCallback(g) ==
    IF isLoading
    THEN "loading"
    ELSE IF ~isAuthenticated THEN "redirecting" ELSE "children"

\* what guard g renders
Render(g) ==
    IF isLoading \/ isProcessingCallback[g]
    THEN "loading"
    ELSE IF ~isAuthenticated THEN "redirecting" ELSE "children"

\* a guard that never sees the justLoggedOut marker
NeverJustLoggedOut(ss) == FALSE

\* const justLoggedOut = sessionStorage.getItem('justLoggedOut');
\* if (justLoggedOut)
JustLoggedOut(ss) == ss.justLoggedOut # None

\* a guard that never sees a login in progress
NeverInProgress(ss) == FALSE

\* const logging = sessionStorage.getItem('isLoggingIn'); if (logging)
LoginInProgress(ss) == ss.isLoggingIn # None

\* The effect of guard g: processCallback up to its first await.  The
\* effect runs again whenever the context value changes, which is on every
\* render of AuthProvider; an effect run that takes no branch changes
\* nothing and is a stuttering step.
processCallback(g) ==
    IF url.code # None /\ url.state # None
    THEN /\ handleAuthCallback(g, url.code, url.state)
         /\ UNCHANGED <<env, isAuthenticated, isLoading, accessToken,
                        hasRedirected, url, nav, pendingLogin, now, nonce,
                        loginCalls, authNavs, loggedOut, freshLoad, validRecord>>
    ELSE /\ ~isLoading /\ ~isAuthenticated /\ ~hasRedirected[g]
         /\ hasRedirected' = [hasRedirected EXCEPT ![g] = TRUE]
         /\ IF JustLoggedOut(sessionStorage)
            THEN /\ sessionStorage' =
                        [sessionStorage EXCEPT !.justLoggedOut = None]
                 /\ ev' = Event("justLoggedOut", g, None, "void", NoResponse)
                 /\ UNCHANGED <<localStorage, pendingLogin, nonce,
                                loginCalls>>
            ELSE IF LoginInProgress(sessionStorage)
            THEN /\ ev' = Event("loginInProgress", g, None, "void",
                                NoResponse)
                 /\ UNCHANGED <<localStorage, sessionStorage, pendingLogin,
                                nonce, loginCalls>>
            ELSE /\ login
                 /\ ev' = Event("login", g, None, "void", NoResponse)
         /\ UNCHANGED <<env, isAuthenticated, isLoading, accessToken,
                        isProcessingCallback, url, nav, inflight, now, posts,
                        authNavs, loggedOut, freshLoad, validRecord>>

Next ==
    \/ \E u \in Urls(nonce) : PageLoad(u)
    \/ Tick
    \/ AuthProviderMount
    \/ \E g \in Guards : processCallback(g)
    \/ \E p \in pendingLogin : LoginNavigate(p)
    \/ \E r \in inflight, response \in Responses :
           handleAuthCallbackResume(r, response)
    \/ logout

Spec == Init /\ [][Next]_vars

(* ------------------------------ properties ---------------------------- *)
TokensUnchanged == \A k \in TokenKeys : localStorage'[k] = localStorage[k]
SessionUnchanged ==
    isAuthenticated' = isAuthenticated /\ accessToken' = accessToken
NoTokens == \A k \in TokenKeys : localStorage[k] = None

\* C1: a call handleAuthCallback(code, state) whose state differs from the
\* value stored under oauth_state (nothing stored included) returns false,
\* issues no token-exchange request, and leaves isAuthenticated,
\* accessToken and the four persisted token keys as they were.
C1_MismatchRejected ==
    [][(ev'.op = "handleAuthCallback"
        /\ ev'.state # localStorage.oauth_state)
       => /\ ev'.ret = "false"
          /\ posts' = posts
          /\ inflight' = inflight
          /\ SessionUnchanged
          /\ TokensUnchanged]_vars

\* a callback has just been rejected while another state and its verifier
\* are stored and no request has ever been issued
C1_Witness ==
    /\ ev.op = "handleAuthCallback"
    /\ ev.ret = "false"
    /\ localStorage.oauth_state # None
    /\ localStorage.oauth_state # ev.state
    /\ sessionStorage.pkce_verifier # None
    /\ posts = <<>>

\* C2: when the token exchange fails (non-success response, fetch or the
\* reading of the response throwing) handleAuthCallback returns false,
\* isAuthenticated and accessToken keep their values, and no token key is
\* written, neither before the request nor after the answer.
C2_FailedExchange ==
    [][/\ (ev'.op = "handleAuthCallbackResume" /\ ev'.resp.kind # "ok")
          => (ev'.ret = "false" /\ SessionUnchanged /\ TokensUnchanged)
       /\ ev'.op = "handleAuthCallback"
          => (SessionUnchanged /\ TokensUnchanged)]_vars

\* an exchange has just failed while reading the response, on a page that
\* is not authenticated and has no token record
C2_Witness ==
    /\ ev.op = "handleAuthCallbackResume"
    /\ ev.resp.kind = "read_throws"
    /\ ev.ret = "false"
    /\ ~isAuthenticated
    /\ NoTokens

\* C3: every invocation of handleAuthCallback ends, on every exit path
\* (state mismatch, non-success response, thrown error, success), with the
\* isLoggingIn marker absent from sessionStorage.
C3_MarkerCleared ==
    ((ev.op = "handleAuthCallback" /\ ev.ret = "false")
     \/ ev.op = "handleAuthCallbackResume")
    => sessionStorage.isLoggingIn = None

\* the exchange of a login that this tab started has just thrown
C3_Witness ==
    /\ ev.op = "handleAuthCallbackResume"
    /\ ev.resp.kind = "fetch_throws"
    /\ ev.state # StateStr(0)
    /\ sessionStorage.isLoggingIn = None

\* C4 as claimed: after any single invocation of handleAuthCallback, the
\* state-mismatch failure included, pkce_verifier and oauth_state are both
\* absent from storage.
C4_AsClaimed ==
    ((ev.op = "handleAuthCallback" /\ ev.ret = "false")
     \/ ev.op = "handleAuthCallbackResume")
    => (sessionStorage.pkce_verifier = None
        /\ localStorage.oauth_state = None)

\* C4, amended: an invocation of handleAuthCallback whose state equals the
\* stored oauth_state removes oauth_state and pkce_verifier before it
\* issues the request, and both are absent when it returns, whether the
\* exchange succeeds or fails; an invocation whose state does not match
\* leaves both as they were.
C4_ClearedOnMatch ==
    [][/\ (ev'.op = "handleAuthCallback"
           /\ ev'.state = localStorage.oauth_state)
          => (sessionStorage'.pkce_verifier = None
              /\ localStorage'.oauth_state = None)
       /\ ev'.op = "handleAuthCallbackResume"
          => (sessionStorage'.pkce_verifier = None
              /\ localStorage'.oauth_state = None)
       /\ (ev'.op = "handleAuthCallback"
           /\ ev'.state # localStorage.oauth_state)
          => (sessionStorage'.pkce_verifier = sessionStorage.pkce_verifier
              /\ localStorage'.oauth_state = localStorage.oauth_state)]_vars

\* the exchange of a callback that carried a verifier has just failed
C4_Witness ==
    /\ ev.op = "handleAuthCallbackResume"
    /\ ev.ret = "false"
    /\ \E i \in DOMAIN posts :
           posts[i].state = ev.state /\ posts[i].body.code_verifier # None
    /\ sessionStorage.pkce_verifier = None
    /\ localStorage.oauth_state = None

\* C5: when the callback's state matched and the token endpoint answers
\* success with access_token A, id_token I and expires_in E, the session is
\* authenticated with accessToken A, storage holds access_token = A,
\* id_token = I and token_expiry = (time of the answer) + E*1000, and the
\* URL's query parameters are gone while the page instance lives on.
C5_SuccessfulExchange ==
    (ev.op = "handleAuthCallbackResume" /\ ev.resp.kind = "ok")
    => /\ ev.ret = "true"
       /\ isAuthenticated
       /\ accessToken = ev.resp.access_token
       /\ localStorage.access_token = ev.resp.access_token
       /\ localStorage.id_token = ev.resp.id_token
       /\ localStorage.token_expiry =
              NumToString(now + ev.resp.expires_in * 1000)
       /\ url = NoParams
       /\ ~isLoading

\* a success answer with expires_in 1 has just been stored at a time
\* other than 0
C5_Witness ==
    /\ ev.op = "handleAuthCallbackResume"
    /\ ev.resp.kind = "ok"
    /\ ev.resp.expires_in = 1
    /\ now > 0
    /\ isAuthenticated
    /\ localStorage.token_expiry = NumToString(now + 1000)
    /\ url = NoParams

\* C6: at page initialization a token record whose token_expiry is not
\* strictly in the future does not make the session authenticated, and
\* after the initialization none of the four token keys is in storage.
C6_ExpiredPurged ==
    [][(isLoading /\ ~isLoading'
        /\ localStorage.token_expiry # None
        /\ ~(now < parseInt(localStorage.token_expiry)))
       => (~isAuthenticated'
           /\ \A k \in TokenKeys : localStorage'[k] = None)]_vars

\* the mount effect has just purged a record
C6_Witness ==
    /\ ev.op = "mount"
    /\ ev.ret = "purged"
    /\ ~isAuthenticated
    /\ ~isLoading
    /\ NoTokens

\* C7: each oauth_state written by login() is used for at most one
\* token-exchange request in the tab, and a page instance has at most one
\* exchange in flight.
C7_OneExchangePerState ==
    /\ \A i, j \in DOMAIN posts : posts[i].state = posts[j].state => i = j
    /\ Cardinality(inflight) <= 1

\* a guard has just called handleAuthCallback again with the state of a
\* request that is still in flight, and was turned away
C7_Witness ==
    /\ ev.op = "handleAuthCallback"
    /\ ev.ret = "false"
    /\ \E r \in inflight : r.state = ev.state
    /\ Len(posts) = 1

\* the operations a guard's effect performs when the URL carries no
\* callback and the page is neither loading nor authenticated
GuardOps == {"justLoggedOut", "loginInProgress", "login"}

\* C8: a guard that evaluates an unauthenticated, non-loading page without
\* callback parameters while the isLoggingIn marker is set does not invoke
\* login(); and whatever the guards of a page instance do, the page
\* navigates to the authorization endpoint at most once.
C8_NoDuplicateLogin ==
    /\ [](authNavs <= 1 /\ Cardinality(pendingLogin) + authNavs <= 1)
    /\ [][(ev'.op \in GuardOps /\ sessionStorage.isLoggingIn # None)
          => (ev'.op # "login"
              /\ loginCalls' = loginCalls
              /\ pendingLogin' = pendingLogin
              /\ localStorage' = localStorage)]_vars

\* a second guard has just found the login of the first one in progress,
\* after the page has navigated to the authorization endpoint
C8_Witness ==
    /\ ev.op = "loginInProgress"
    /\ sessionStorage.isLoggingIn # None
    /\ loginCalls = 1
    /\ authNavs = 1
    /\ \A g \in Guards : hasRedirected[g]

\* C9: on a page loaded with no stored tokens, no callback parameters and
\* no flow markers (the redirect URI being configured), the guard that
\* invokes login() renders the "redirecting" placeholder, login() is
\* invoked once and no more, and until it is invoked every guard's
\* evaluation would invoke it; when the page navigates, the isLoggingIn
\* marker is set, the authorization URL has code_challenge_method=S256 and
\* the state of that login() call, and that state is the value stored
\* under oauth_state unless logout() was called on the page meanwhile.
C9_FreshLoadLogin ==
    (freshLoad /\ env.redirectUri)
    => /\ loginCalls <= 1
       /\ (~isLoading /\ loginCalls = 0 /\ ~loggedOut)
          => /\ ~isAuthenticated
             /\ url = NoParams
             /\ sessionStorage.isLoggingIn = None
             /\ sessionStorage.justLoggedOut = None
             /\ \A g \in Guards : ~hasRedirected[g] /\ Render(g) = "redirecting"
       /\ ev.op = "login"
          => /\ Render(ev.g) = "redirecting"
             /\ loginCalls = 1
             /\ sessionStorage.isLoggingIn = One
             /\ localStorage.oauth_state = StateStr(nonce)
       /\ ev.op = "navigate"
          => /\ loginCalls = 1
             /\ authNavs = 1
             /\ sessionStorage.isLoggingIn = One
             /\ nav.to = "authorize"
             /\ nav.code_challenge_method = <<"S256">>
             /\ nav.state = ev.state
             /\ nav.state = StateStr(nonce)
             /\ nav.code_challenge =
                    base64UrlEncode(sha256(VerifierStr(nonce)))
             /\ ~loggedOut => localStorage.oauth_state = nav.state

\* a freshly loaded page has just navigated to the authorization endpoint
\* with the stored state
C9_Witness ==
    /\ freshLoad
    /\ ev.op = "navigate"
    /\ loginCalls = 1
    /\ nav.code_challenge_method = <<"S256">>
    /\ localStorage.oauth_state = nav.state
    /\ sessionStorage.isLoggingIn = One

\* C10: with no redirect URI configured, login() aborts: the page never
\* navigates to the authorization endpoint, no PKCE verifier is stored,
\* and the isLoggingIn marker is absent when login() has finished.
C10_LoginFailsClosed ==
    ~env.redirectUri
    => /\ nav.to # "authorize"
       /\ authNavs = 0
       /\ pendingLogin = {}
       /\ sessionStorage.pkce_verifier = None
       /\ ev.op = "login" => sessionStorage.isLoggingIn = None

\* login() has just run and aborted: it has stored its state and nothing
\* else
C10_Witness ==
    /\ ~env.redirectUri
    /\ ev.op = "login"
    /\ localStorage.oauth_state = StateStr(nonce)
    /\ sessionStorage.isLoggingIn = None
    /\ sessionStorage.pkce_verifier = None
    /\ nav = NoNav

\* C11: after logout() called on an authenticated session, isAuthenticated
\* is false and accessToken absent, the justLoggedOut marker is set,
\* access_token, id_token, refresh_token, token_expiry, oauth_state and
\* pkce_verifier are absent from storage, and (the logout endpoint and
\* redirect being configured) the page navigates to
\* {logoutUrl}?client_id=<client id>&logout_uri=<logout redirect>.
C11_Logout ==
    ev.op = "logout"
    => /\ ~isAuthenticated
       /\ accessToken = None
       /\ sessionStorage.justLoggedOut = One
       /\ NoTokens
       /\ localStorage.oauth_state = None
       /\ sessionStorage.pkce_verifier = None
       /\ (env.logoutUrl /\ env.logoutRedirect)
          => /\ nav.to = "logout"
             /\ nav.client_id = <<"clientId">>
             /\ nav.logout_uri = <<"logoutRedirect">>
             /\ nav.state = None
             /\ nav.code_challenge = None

\* logout() has just been called on an authenticated session and the page
\* is navigating to the logout endpoint
C11_Witness ==
    /\ ev.op = "logout"
    /\ ev.ret = "wasAuthenticated"
    /\ ~isAuthenticated
    /\ NoTokens
    /\ sessionStorage.justLoggedOut = One
    /\ nav = LogoutUrl

\* C12: a logout() called with the logout endpoint or the logout redirect
\* not configured performs no navigation; no page with such a
\* configuration ever navigates to the logout endpoint.
C12_LogoutFailsClosed ==
    /\ []((~env.logoutUrl \/ ~env.logoutRedirect) => nav.to # "logout")
    /\ [][(ev'.op = "logout" /\ (~env.logoutUrl \/ ~env.logoutRedirect))
          => nav' = nav]_vars

\* logout() has just been called on an authenticated session with the
\* logout endpoint configured and the redirect not, and the page has not
\* navigated
C12_Witness ==
    /\ ev.op = "logout"
    /\ ev.ret = "wasAuthenticated"
    /\ env.logoutUrl
    /\ ~env.logoutRedirect
    /\ nav = NoNav

\* C13: a guard that evaluates an unauthenticated, non-loading page
\* without callback parameters while the justLoggedOut marker is set
\* removes the marker and does not invoke login() in that evaluation; the
\* marker is absent afterwards, so it suppresses one evaluation only.
C13_JustLoggedOutConsumed ==
    [][(ev'.op \in GuardOps /\ sessionStorage.justLoggedOut # None)
       => /\ ev'.op = "justLoggedOut"
          /\ sessionStorage'.justLoggedOut = None
          /\ loginCalls' = loginCalls
          /\ nonce' = nonce
          /\ pendingLogin' = pendingLogin
          /\ localStorage' = localStorage
          /\ nav' = nav]_vars

\* after a logout() a guard has just consumed the marker without any
\* login() on the page
C13_Witness ==
    /\ ev.op = "justLoggedOut"
    /\ loggedOut
    /\ sessionStorage.justLoggedOut = None
    /\ hasRedirected[ev.g]
    /\ loginCalls = 0
    /\ pendingLogin = {}

\* C14: a guard renders the protected content only if the session is
\* authenticated, the loading flag is cleared and it is not processing a
\* callback; while loading or processing a callback it renders the
\* spinner; otherwise, when not authenticated, the "redirecting"
\* placeholder.
C14_RenderStates ==
    \A g \in Guards :
        /\ Render(g) = "children"
           <=> (isAuthenticated /\ ~isLoading /\ ~isProcessingCallback[g])
        /\ Render(g) = "loading"
           <=> (isLoading \/ isProcessingCallback[g])
        /\ Render(g) = "redirecting"
           <=> (~isAuthenticated /\ ~isLoading /\ ~isProcessingCallback[g])

\* one guard is processing a callback and renders the spinner while
\* another renders the placeholder
C14_Witness ==
    \E g, h \in Guards :
        /\ isProcessingCallback[g]
        /\ ~isLoading
        /\ Render(g) = "loading"
        /\ Render(h) = "redirecting"

\* C15: the mount effect ends with the loading flag cleared, and within a
\* page instance the flag never becomes true again; an initialized session
\* goes from unauthenticated to authenticated only by a handleAuthCallback
\* that returns true, and from authenticated to unauthenticated only by
\* logout().
C15_SessionStateMachine ==
    [][ev'.op # "load"
       => /\ ev'.op = "mount" => (isLoading /\ ~isLoading')
          /\ ~isLoading => ~isLoading'
          /\ (isLoading /\ isAuthenticated' # isAuthenticated)
             => (ev'.op = "mount" /\ isAuthenticated')
          /\ (~isLoading /\ ~isAuthenticated /\ isAuthenticated')
             => (ev'.op = "handleAuthCallbackResume" /\ ev'.ret = "true")
          /\ (isAuthenticated /\ ~isAuthenticated')
             => ev'.op = "logout"]_vars

\* a session that a successful callback authenticated has just been
\* logged out
C15_Witness ==
    /\ ev.op = "logout"
    /\ ev.ret = "wasAuthenticated"
    /\ ~isLoading
    /\ ~isAuthenticated
    /\ posts # <<>>
    /\ url = NoParams

\* C16: on a page whose storage holds an unexpired token record when it
\* initializes, no guard invokes login() and nothing navigates to the
\* authorization endpoint: no login() happens while the loading flag is
\* set, and once initialized the session is authenticated with the stored
\* access token and every guard renders the protected content (until a
\* logout() on that page).
C16_ValidRecordNoLogin ==
    /\ isLoading => (loginCalls = 0 /\ authNavs = 0 /\ pendingLogin = {})
    /\ (validRecord /\ ~loggedOut)
       => /\ ~isLoading
          /\ loginCalls = 0
          /\ authNavs = 0
          /\ pendingLogin = {}
          /\ nav.to # "authorize"
          /\ isAuthenticated
          /\ accessToken # None
          /\ accessToken = localStorage.access_token
          /\ \A g \in Guards : Render(g) = "children"

\* a reload over the record a successful callback stored: the mount effect
\* restored the session and the guards have evaluated again
C16_Witness ==
    /\ validRecord
    /\ ~loggedOut
    /\ posts # <<>>
    /\ url = NoParams
    /\ ~isLoading
    /\ isAuthenticated
    /\ \A g \in Guards : Render(g) = "children"

\* C17: while a token exchange a guard started is still in flight, that
\* guard is in the "processing callback" state and renders the loading
\* placeholder, whatever guard re-evaluations happen in between.
C17_AsClaimed ==
    \A r \in inflight :
        /\ isProcessingCallback[r.g]
        /\ Render(r.g) = "loading"


(* ------------------ a second tab of the same origin ------------------- *)
\* localStorage is shared by the tabs of an origin; sessionStorage and the
\* React state are per tab.  Another tab that finds no token record runs
\* the same flow while this tab takes no step: login() stores its own
\* oauth_state, its handleAuthCallback matches and removes it, and the
\* success response is stored.  Only the effect on localStorage is seen
\* here.
OtherTab(response) ==
    /\ response.kind = "ok"
    /\ env.redirectUri
    /\ localStorage.access_token = None
    /\ localStorage' = StoreTokens(ConsumeState(localStorage), response, now)
    /\ ev' = Event("otherTab", 0, None, "true", response)
    /\ UNCHANGED <<sessionStorage, env, isAuthenticated, isLoading,
                   accessToken, isProcessingCallback, hasRedirected, url,
                   nav, inflight, pendingLogin, now, nonce, posts,
                   loginCalls, authNavs, loggedOut, freshLoad, validRecord>>

NextTabs ==
    \/ Next
    \/ \E response \in Responses : OtherTab(response)

SpecTabs == Init /\ [][NextTabs]_vars

\* C18: after a successful handleAuthCallback the four persisted token
\* fields come from that one token response: access_token, id_token and
\* token_expiry are the response's values, and the stored refresh_token is
\* the response's refresh token, or absent when the response has none.
C18_AsClaimed ==
    (ev.op = "handleAuthCallbackResume" /\ ev.ret = "true")
    => /\ ev.resp.kind = "ok"
       /\ localStorage.access_token = ev.resp.access_token
       /\ localStorage.id_token = ev.resp.id_token
       /\ localStorage.token_expiry[2] = now + ev.resp.expires_in * 1000
       /\ localStorage.refresh_token = ev.resp.refresh_token

\* C19: in every reachable state of the in-memory session, isAuthenticated
\* is true exactly when accessToken is present: while initializing, after
\* initialization, after any handleAuthCallback (successful or failed)
\* and after logout().
C19_FlagMatchesToken ==
    /\ isAuthenticated <=> (accessToken # None)
    /\ isAuthenticated => accessToken[1] = "access"

\* the mount effect has just restored a session from storage
C19_Witness ==
    /\ ev.op = "mount"
    /\ ev.ret = "restored"
    /\ isAuthenticated
    /\ accessToken = localStorage.access_token
    /\ accessToken # None

\* C20: a token-exchange request that carries a code_verifier carries the
\* verifier login() generated together with the CSRF state the callback
\* matched, and every authorization request carries that state together
\* with the S256 challenge of that verifier; no verifier is attached to
\* two exchange requests, and none appears in an authorization or logout
\* URL.
C20_VerifierBoundToState ==
    /\ \A i \in 1..Len(posts) :
          posts[i].body.code_verifier # None
          => \E n \in 1..nonce :
                /\ posts[i].state = StateStr(n)
                /\ posts[i].body.code_verifier = VerifierStr(n)
    /\ \A i, j \in 1..Len(posts) :
          (i # j /\ posts[i].body.code_verifier # None)
          => posts[i].body.code_verifier # posts[j].body.code_verifier
    /\ nav.to = "authorize"
       => \E n \in 1..nonce :
             /\ nav.state = StateStr(n)
             /\ nav.code_challenge = <<"base64url", <<"sha256", <<"verifier", n>>>>>>
             /\ nav.code_challenge_method = <<"S256">>
    /\ \A f \in DOMAIN nav \ {"to"} :
          nav[f] = None \/ nav[f][1] # "verifier"
    /\ \A n \in 1..nonce :
          (localStorage.oauth_state = StateStr(n)
             /\ sessionStorage.pkce_verifier # None)
          => sessionStorage.pkce_verifier = VerifierStr(n)

\* the second login of the tab has come back: its exchange request has
\* just been issued, and both requests of the tab carry a verifier
C20_Witness ==
    /\ ev.op = "handleAuthCallback"
    /\ ev.ret = "pending"
    /\ Len(posts) = 2
    /\ \A i \in 1..Len(posts) : posts[i].body.code_verifier # None
    /\ posts[1].state # posts[2].state

(* ------------------------------ progress ------------------------------ *)
\* What the page does by itself happens eventually: React runs the mount
\* effect and the guards' effects, sha256() resolves, and the token
\* endpoint's request is answered or fails.  Page loads, logout() and the
\* passing of time are the user's and the environment's: they may happen
\* or not.
FairSpec ==
    /\ Spec
    /\ WF_vars(AuthProviderMount)
    /\ \A g \in Guards : WF_vars(processCallback(g))
    /\ WF_vars(\E p \in pendingLogin : LoginNavigate(p))
    /\ WF_vars(\E r \in inflight, response \in Responses :
                  handleAuthCallbackResume(r, response))

\* a protected route loaded without callback parameters, initialized
\* without a valid token record, in a build with a redirect URI, before
\* any logout() on the page
UnauthenticatedRoute ==
    /\ ~isLoading
    /\ ~isAuthenticated
    /\ url = NoParams
    /\ env.redirectUri
    /\ ~loggedOut
    /\ nonce < MaxLogins

\* C21: a login attempt can always be retried: a protected route loaded
\* without a valid token record eventually reaches an authenticated
\* session or a navigation to the authorization endpoint, unless the page
\* is reloaded or logged out first; no leftover isLoggingIn or
\* justLoggedOut marker leaves the guard on the "redirecting" placeholder
\* without invoking login().
C21_AsClaimed ==
    UnauthenticatedRoute
    ~> (isAuthenticated \/ nav.to = "authorize" \/ isLoading \/ loggedOut)
====
